---- MODULE Spec2Model ----
(***************************************************************************)
(* Truth tables for propositional expressions over the propositions        *)
(* A, B, C, D: the recursive parser and evaluator (expressions.rs), the    *)
(* proposition table (propositions.rs) and the truth table built from an   *)
(* expression or from literal rows (truth_table.rs).                       *)
(*                                                                         *)
(* A text (&str / String) is a sequence of one-character strings.  An      *)
(* Option<bool> is <<>> (None) or <<b>> (Some(b)).  A panic is an outcome  *)
(* record whose err field names the panic.                                 *)
(***************************************************************************)
EXTENDS Integers, Sequences, FiniteSets, TLC

VARIABLES pc, expression_string, validate_propositions, expression,
          permutation, result, rows, built_from, table, expression_str, rebuilt,
          extracted

vars == <<pc, expression_string, validate_propositions, expression,
          permutation, result, rows, built_from, table, expression_str, rebuilt,
          extracted>>

(***************************************************************************)
(* Bounds of the model.                                                    *)
(***************************************************************************)
\* longest text enumerated over Alphabet
MaxLen == 4
\* most rows with result 1 in an enumerated complete set of rows
MaxTrue == 2

(***************************************************************************)
(* propositions.rs                                                         *)
(***************************************************************************)
PropositionIdentifier == {"A", "B", "C", "D"}

PropositionChars == {"A", "B", "C", "D", "a", "b", "c", "d"}

\* x & (1 << b) != 0
BitSet(x, b) == (x \div (2 ^ b)) % 2 = 1

mask(self, perm) ==
    CASE self = "A" -> BitSet(perm, 3)
      [] self = "B" -> BitSet(perm, 2)
      [] self = "C" -> BitSet(perm, 1)
      [] self = "D" -> BitSet(perm, 0)

from_char(c) ==
    CASE c \in {"a", "A"} -> "A"
      [] c \in {"b", "B"} -> "B"
      [] c \in {"c", "C"} -> "C"
      [] c \in {"d", "D"} -> "D"
      [] OTHER -> "unreachable"

from_int(i) ==
    CASE i = 0 -> "A"
      [] i = 1 -> "B"
      [] i = 2 -> "C"
      [] i = 3 -> "D"
      [] OTHER -> "unreachable"

to_char(self) ==
    CASE self = "A" -> "A"
      [] self = "B" -> "B"
      [] self = "C" -> "C"
      [] self = "D" -> "D"

\* PropositionTable: a function from the identifiers it holds to Option<bool>
from_expression_str(expr) ==
    [id \in {from_char(expr[i]) : i \in {j \in 1..Len(expr) : expr[j] \in PropositionChars}}
        |-> <<>>]

get_value(self, identifier) ==
    IF identifier \in DOMAIN self THEN self[identifier] ELSE <<>>

\* for (proposition, value) in iter_mut(): *value = Some(proposition.mask(values))
RECURSIVE set_all_loop(_, _, _)
set_all_loop(self, todo, values) ==
    IF todo = {} THEN self
    ELSE LET proposition == CHOOSE id \in todo : TRUE
         IN set_all_loop([self EXCEPT ![proposition] = <<mask(proposition, values)>>],
                         todo \ {proposition}, values)

\* a value is assigned only where none was assigned before
RECURSIVE set_all_unassigned_loop(_, _, _)
set_all_unassigned_loop(self, todo, values) ==
    IF todo = {} THEN self
    ELSE LET proposition == CHOOSE id \in todo : TRUE
         IN set_all_unassigned_loop(
                IF self[proposition] = <<>>
                THEN [self EXCEPT ![proposition] = <<mask(proposition, values)>>]
                ELSE self,
                todo \ {proposition}, values)

set_all_unassigned(self, values) == set_all_unassigned_loop(self, DOMAIN self, values)

set_all(self, values) == set_all_loop(self, DOMAIN self, values)

count(self) == Cardinality(DOMAIN self) % 256
\* a table of two propositions is only asked for A
validate_first_only(self) ==
    CASE Cardinality(DOMAIN self) = 1 -> "A" \in DOMAIN self
      [] Cardinality(DOMAIN self) = 2 -> "A" \in DOMAIN self
      [] Cardinality(DOMAIN self) = 3 ->
            "A" \in DOMAIN self /\ "B" \in DOMAIN self /\ "C" \in DOMAIN self
      [] Cardinality(DOMAIN self) = 4 ->
            "A" \in DOMAIN self /\ "B" \in DOMAIN self /\ "C" \in DOMAIN self
            /\ "D" \in DOMAIN self
      [] OTHER -> FALSE


validate(self) ==
    CASE Cardinality(DOMAIN self) = 1 -> "A" \in DOMAIN self
      [] Cardinality(DOMAIN self) = 2 -> "A" \in DOMAIN self /\ "B" \in DOMAIN self
      [] Cardinality(DOMAIN self) = 3 ->
            "A" \in DOMAIN self /\ "B" \in DOMAIN self /\ "C" \in DOMAIN self
      [] Cardinality(DOMAIN self) = 4 ->
            "A" \in DOMAIN self /\ "B" \in DOMAIN self /\ "C" \in DOMAIN self
            /\ "D" \in DOMAIN self
      [] OTHER -> FALSE

(***************************************************************************)
(* expressions.rs                                                          *)
(***************************************************************************)
EmptyTable == [id \in {} |-> <<>>]

\* a panic raised while parsing: no Expression is returned
Panic(kind) == [err |-> kind]

\* Expression::new
new_expression(elements, operators, propositions) ==
    [err |-> "none", elements |-> elements, operators |-> operators,
     propositions |-> propositions]

\* ExpressionElementToken
Proposition(p) == [kind |-> "Proposition", p |-> p]

Subexpression(e) == [kind |-> "Subexpression", e |-> e]

\* ExpressionElement::new
new_element(element, negation) == [token |-> element, negation |-> negation]

from_proposition(proposition_letter, negation) ==
    new_element(Proposition(from_char(proposition_letter)), negation)

RECURSIVE get_subexpression_loop(_, _, _, _)
get_subexpression_loop(expr, k, depth, subexpression) ==
    IF k > Len(expr) THEN subexpression
    ELSE LET c == expr[k]
             d == CASE c = "(" -> depth + 1
                    [] c = ")" -> depth - 1
                    [] OTHER -> depth
         IN IF d > 0
            THEN get_subexpression_loop(expr, k + 1, d, Append(subexpression, c))
            ELSE subexpression

\* the unwrap of the first character, or the unreachable!, panics
get_subexpression_panics(expr) == expr = <<>> \/ expr[1] # "("

\* the text ends at the first ')', whatever was opened before it
get_subexpression_first_closer(expr) ==
    LET closers == {k \in 2..Len(expr) : expr[k] = ")"}
    IN IF closers = {}
       THEN SubSeq(expr, 2, Len(expr))
       ELSE SubSeq(expr, 2, (CHOOSE k \in closers : \A j \in closers : k <= j) - 1)

get_subexpression(expr) == get_subexpression_loop(expr, 2, 1, <<>>)
\* the scan resumes on the group's ')' instead of after it
SkipSubexpressionOnCloser(i, subexpression) == i + 1 + Len(subexpression)

\* input_chars.nth(subexpression.len()) after next() returned index i:
\* the position the scan resumes at
SkipSubexpression(i, subexpression) == i + 1 + Len(subexpression) + 1
\* a second marker cancels the first
ToggleNegation(is_negated) == ~is_negated

\* '!' | '/' => is_negated = true
QueueNegation(is_negated) == TRUE
\* only too few elements are rejected
CountTooFew(elements, operators) == Len(elements) < Len(operators) + 1

\* elements.len() != operators.len() + 1
CountMismatch(elements, operators) == Len(elements) # Len(operators) + 1

\* parse builds its table with PropositionTable::from_str, which propositions.rs
\* defines under the name from_expression_str
RECURSIVE parse(_, _), parse_loop(_, _, _, _, _)
parse_loop(s, i, elements, operators, is_negated) ==
    IF i > Len(s)
    THEN new_expression(elements, operators, EmptyTable)
    ELSE LET c == s[i] IN
         CASE c \in PropositionChars ->
                parse_loop(s, i + 1, Append(elements, from_proposition(c, is_negated)),
                           operators, FALSE)
           [] c = "(" ->
                IF get_subexpression_panics(SubSeq(s, i, Len(s)))
                THEN Panic("internal")
                ELSE LET subexpression == get_subexpression(SubSeq(s, i, Len(s)))
                         sub == parse(subexpression, FALSE)
                     IN IF sub.err # "none"
                        THEN sub
                        ELSE parse_loop(s, SkipSubexpression(i, subexpression),
                                        Append(elements,
                                               new_element(Subexpression(sub), is_negated)),
                                        operators, FALSE)
           [] c = ")" -> Panic("unmatched_paren")
           [] c \in {"!", "/"} ->
                parse_loop(s, i + 1, elements, operators, QueueNegation(is_negated))
           [] c \in {"&", "*"} ->
                parse_loop(s, i + 1, elements, Append(operators, "And"), is_negated)
           [] c \in {"|", "+"} ->
                parse_loop(s, i + 1, elements, Append(operators, "Or"), is_negated)
           [] c \in {" ", "\n"} ->
                parse_loop(s, i + 1, elements, operators, is_negated)
           [] OTHER -> Panic("invalid_char")

parse(s, validate_flag) ==
    LET propositions == from_expression_str(s) IN
    IF validate_flag /\ ~validate(propositions)
    THEN Panic("validation")
    ELSE LET scanned == parse_loop(s, 1, <<>>, <<>>, FALSE) IN
         IF scanned.err # "none"
         THEN scanned
         ELSE IF CountMismatch(scanned.elements, scanned.operators)
              THEN Panic("mismatched_count")
              ELSE new_expression(scanned.elements, scanned.operators, propositions)

\* the nested expressions are left as they were
set_values_loop_shallow(self, k, perm) == self

RECURSIVE set_values(_, _), set_values_loop(_, _, _)
set_values_loop(self, k, perm) ==
    IF k > Len(self.elements) THEN self
    ELSE IF self.elements[k].token.kind = "Subexpression"
         THEN set_values_loop(
                [self EXCEPT !.elements[k].token.e = set_values(@, perm)], k + 1, perm)
         ELSE set_values_loop(self, k + 1, perm)

set_values(self, perm) ==
    set_values_loop([self EXCEPT !.propositions = set_all(@, perm)], 1, perm)

\* the outcome of an evaluation: a value, or the expect() panic
Value(b) == [err |-> "none", value |-> b]

EvalPanic == [err |-> "internal"]
\* the two operators exchanged
ApplyOperatorExchanged(operator, acc, value) ==
    CASE operator = "And" -> acc \/ value
      [] operator = "Or" -> acc /\ value

\* result &= value / result |= value
ApplyOperator(operator, acc, value) ==
    CASE operator = "And" -> acc /\ value
      [] operator = "Or" -> acc \/ value

\* if element.negation { result = !result }
ApplyNegation(negation, value) == IF negation THEN ~value ELSE value

RECURSIVE evaluate(_), evaluate_element(_, _), evaluate_loop(_, _, _)
evaluate_element(self, element) ==
    LET base == IF element.token.kind = "Proposition"
                THEN LET v == get_value(self.propositions, element.token.p)
                     IN IF v = <<>> THEN EvalPanic ELSE Value(v[1])
                ELSE evaluate(element.token.e)
    IN IF base.err # "none"
       THEN base
       ELSE Value(ApplyNegation(element.negation, base.value))

evaluate_loop(self, i, acc) ==
    IF i > Len(self.operators)
    THEN Value(acc)
    ELSE LET value == evaluate_element(self, self.elements[i + 1])
         IN IF value.err # "none"
            THEN value
            ELSE evaluate_loop(self, i + 1,
                               ApplyOperator(self.operators[i], acc, value.value))

evaluate(self) ==
    LET first == evaluate_element(self, self.elements[1])
    IN IF first.err # "none" THEN first ELSE evaluate_loop(self, 1, first.value)

proposition_count(self) == count(self.propositions)

\* the value returned; the expression is left as set_values(self, perm)
evaluate_permutation(self, perm) == evaluate(set_values(self, perm))

(***************************************************************************)
(* truth_table.rs                                                          *)
(***************************************************************************)
\* TruthTable::new; values_and_results (a BTreeMap<u8, bool>) is a function
\* from its keys to their results
new_table(propositions, values_and_results) ==
    [err |-> "none", propositions |-> propositions,
     values_and_results |-> values_and_results]

EmptyMap == [p \in {} |-> FALSE]

\* BTreeMap::insert
Insert(map, key, value) == (key :> value) @@ map

\* u8::reverse_bits
reverse_bits(x) ==
    LET bit(b) == IF BitSet(x, b) THEN 2 ^ (7 - b) ELSE 0
    IN bit(0) + bit(1) + bit(2) + bit(3) + bit(4) + bit(5) + bit(6) + bit(7)

get_propositions_panics(prop_count) ==
    \E i \in 0..(prop_count - 1) : from_int(i) = "unreachable"

get_propositions(prop_count) ==
    [i \in 1..prop_count |-> from_int(i - 1)]
\* the permutations are not bit-reversed
get_bit_permutations_unreversed(bits) == [i \in 1..(2 ^ bits) |-> i - 1]


get_bit_permutations(bits) ==
    [i \in 1..(2 ^ bits) |-> reverse_bits(i - 1) \div 16]

RECURSIVE from_expression_loop(_, _, _, _)
from_expression_loop(expr, permutations, k, values_and_results) ==
    IF k > Len(permutations)
    THEN values_and_results
    ELSE from_expression_loop(set_values(expr, permutations[k]), permutations, k + 1,
            Insert(values_and_results, permutations[k],
                   evaluate_permutation(expr, permutations[k]).value))

from_expression(expr) ==
    IF \E k \in DOMAIN get_bit_permutations(proposition_count(expr)) :
          evaluate_permutation(expr, get_bit_permutations(proposition_count(expr))[k]).err
              # "none"
    THEN Panic("internal")
    ELSE IF get_propositions_panics(proposition_count(expr))
    THEN Panic("internal")
    ELSE
    new_table(get_propositions(proposition_count(expr)),
              from_expression_loop(expr, get_bit_permutations(proposition_count(expr)),
                                   1, EmptyMap))

\* TruthTable::parse_expression_str
parse_expression_str(s) ==
    LET parsed == parse(s, TRUE)
    IN IF parsed.err # "none" THEN Panic(parsed.err) ELSE from_expression(parsed)

\* str::split(", ")
RECURSIVE Split(_, _, _)
Split(s, i, current) ==
    IF i > Len(s) THEN <<current>>
    ELSE IF i < Len(s) /\ s[i] = "," /\ s[i + 1] = " "
         THEN <<current>> \o Split(s, i + 2, <<>>)
         ELSE Split(s, i + 1, Append(current, s[i]))

\* the panic of validate_rows, or "none"
validate_rows(row_list) ==
    IF \E r \in DOMAIN row_list : \E j \in DOMAIN row_list[r] :
            row_list[r][j] # "0" /\ row_list[r][j] # "1"
    THEN "invalid_row_char"
    ELSE IF Len(row_list[1]) < 2 \/ Len(row_list[1]) > 5
         THEN "row_size"
         ELSE IF \E r \in DOMAIN row_list : Len(row_list[r]) # Len(row_list[1])
              THEN "row_length"
              ELSE "none"

\* u8::from_str_radix(row, 2) on a text of '0' and '1'
RECURSIVE from_str_radix(_)
from_str_radix(row) ==
    IF row = <<>> THEN 0
    ELSE 2 * from_str_radix(SubSeq(row, 1, Len(row) - 1))
         + (IF row[Len(row)] = "1" THEN 1 ELSE 0)
\* the columns are not shifted to the top of the nibble
decode_permutation_str_unshifted(row) ==
    from_str_radix(SubSeq(row, 1, Len(row) - 1)) % 256


decode_permutation_str(row) ==
    LET bits == SubSeq(row, 1, Len(row) - 1)
    IN (from_str_radix(bits) * 2 ^ (4 - Len(bits))) % 256

RECURSIVE rows_to_value_map_loop(_, _, _)
rows_to_value_map_loop(row_list, k, values_and_results) ==
    IF k > Len(row_list)
    THEN values_and_results
    ELSE rows_to_value_map_loop(row_list, k + 1,
            Insert(values_and_results, decode_permutation_str(row_list[k]),
                   row_list[k][Len(row_list[k])] = "1"))

rows_to_value_map(row_list) == rows_to_value_map_loop(row_list, 1, EmptyMap)

\* (rows[0].len() - 1) as u8: the subtraction overflows on an empty first row
\* (a panic in a debug build, a wrap to usize::MAX in a release build)
first_row_count(row_list, debug_build) ==
    IF Len(row_list[1]) = 0
    THEN IF debug_build THEN -1 ELSE 255
    ELSE (Len(row_list[1]) - 1) % 256

parse_rows(text, debug_build) ==
    LET row_list == Split(text, 1, <<>>)
        prop_count == first_row_count(row_list, debug_build)
    IN IF prop_count < 0
       THEN Panic("arithmetic_overflow")
       ELSE IF get_propositions_panics(prop_count)
            THEN Panic("internal")
            ELSE IF validate_rows(row_list) # "none"
                 THEN Panic(validate_rows(row_list))
                 ELSE new_table(get_propositions(prop_count),
                                rows_to_value_map(row_list))

\* the keys of a BTreeMap in iteration (ascending) order
RECURSIVE Ascending(_)
Ascending(keys) ==
    IF keys = {} THEN <<>>
    ELSE LET least == CHOOSE k \in keys : \A other \in keys : k <= other
         IN <<least>> \o Ascending(keys \ {least})

RECURSIVE encode_conjunction_loop(_, _, _, _)
encode_conjunction_loop(perm, prop_count, i, conjunction) ==
    IF i >= prop_count
    THEN conjunction
    ELSE IF mask(from_int(i), perm)
         THEN encode_conjunction_loop(perm, prop_count, i + 1,
                (IF conjunction # <<"(">> /\ i # prop_count
                 THEN conjunction \o <<" ", "&", " ">>
                 ELSE conjunction) \o <<to_char(from_int(i))>>)
         ELSE encode_conjunction_loop(perm, prop_count, i + 1, conjunction)

\* the loop stops one proposition early
encode_conjunction_one_short(perm, prop_count) ==
    encode_conjunction_loop(perm, prop_count - 1, 0, <<"(">>) \o <<")">>

encode_conjunction(perm, prop_count) ==
    encode_conjunction_loop(perm, prop_count, 0, <<"(">>) \o <<")">>

RECURSIVE to_expression_str_loop(_, _, _, _)
to_expression_str_loop(self, keys, k, expr) ==
    IF k > Len(keys)
    THEN expr
    ELSE IF self.values_and_results[keys[k]]
         THEN to_expression_str_loop(self, keys, k + 1,
                (IF expr # <<>> THEN expr \o <<" ", "|", " ">> ELSE expr)
                \o encode_conjunction(keys[k], Len(self.propositions) % 256))
         ELSE to_expression_str_loop(self, keys, k + 1, expr)

to_expression_str(self) ==
    to_expression_str_loop(self, Ascending(DOMAIN self.values_and_results), 1, <<>>)

(***************************************************************************)
(* Inputs.                                                                 *)
(***************************************************************************)
Alphabet == {"A", "B", "C", "(", ")", "!", "&", "|"}

TextAandB == <<"A", " ", "&", " ", "B">>

TextNotAandNotB == <<"!", "A", " ", "&", " ", "!", "B">>

TextABorCD == <<"(", "A", " ", "&", " ", "B", ")", " ", "|", " ", "(", "C", " ", "&", " ", "D", ")">>

TextAandC == <<"A", " ", "&", " ", "C">>

TextBandC == <<"B", " ", "&", " ", "C">>

TextACD == <<"A", " ", "&", " ", "C", " ", "&", " ", "D">>

TextAorBandC == <<"A", " ", "|", " ", "B", " ", "&", " ", "C">>

TextNotGroup == <<"!", "(", "A", " ", "&", " ", "B", ")">>

TextNotAandB == <<"!", "A", " ", "&", " ", "B">>

TextUnclosed == <<"(", "A", " ", "&", " ", "B">>

TextABCD == <<"A", " ", "&", " ", "B", " ", "&", " ", "C", " ", "&", " ", "D">>

TextNested == <<"(", "(", "A", " ", "|", " ", "B", ")", " ", "&", " ", "C", ")", " ", "&", " ", "(", "D", " ", "&", " ", "C", " ", "&", " ", "A", ")">>

TextAlternate == <<"a", " ", "*", " ", "b", " ", "+", " ", "/", "c">>

\* "((A | B) & C)"
TextNestedSingle ==
    <<"(", "(", "A", " ", "|", " ", "B", ")", " ", "&", " ", "C", ")">>

\* "(A | B & C)"
TextGroupOnly == <<"(", "A", " ", "|", " ", "B", " ", "&", " ", "C", ")">>

TextNewline == <<"A", " ", "&", " ", "B", "\n", "|", " ", "C">>

TextInvalidChar == <<"A", " ", "&", " ", "x">>

TextTab == <<"A", "\t", "&", " ", "B">>

TextGroupAC == <<"(", "A", " ", "&", " ", "C", ")", " ", "|", " ", "B">>

TextTree1 == <<"(", "A", " ", "&", " ", "B", " ", "&", " ", "!", "C", ")", " ", "|", " ", "(", "A", " ", "&", " ", "B", " ", "|", " ", "(", "!", "C", " ", "|", " ", "A", ")", ")", " ", "&", " ", "(", "A", " ", "|", " ", "B", ")">>

TextTree2 == <<"!", "(", "A", " ", "&", " ", "B", ")", " ", "|", " ", "(", "(", "A", " ", "|", " ", "!", "C", " ", "|", " ", "!", "D", ")", " ", "&", " ", "A", ")", " ", "&", " ", "B", " ", "&", " ", "C">>

TextTrailingNegation == <<"A", " ", "&", " ", "(", "B", " ", "|", " ", "!", "!", "C", ")", " ", "!">>

SampleTexts ==
    {TextAandB,
     TextNotAandNotB,
     TextABorCD,
     TextAandC,
     TextBandC,
     TextACD,
     TextAorBandC,
     TextNotGroup,
     TextNotAandB,
     TextUnclosed,
     TextABCD,
     TextNested,
     TextAlternate,
     TextNestedSingle,
     TextGroupOnly,
     TextNewline,
     TextInvalidChar,
     TextTab,
     TextGroupAC,
     TextTree1,
     TextTree2,
     TextTrailingNegation}

Texts == UNION {[1..n -> Alphabet] : n \in 0..MaxLen} \cup SampleTexts

\* the packed permutations set_values is called with
PermutationInputs == 0..15

RowsEmpty == <<>>

RowsOneChar == <<"0">>

RowsOneColumn == <<"0", "1", ",", " ", "1", "0">>

RowsBadChar == <<"0", "1", "2", ",", " ", "1", "1", "0">>

RowsRagged == <<"0", "0", "1", ",", " ", "0", "1">>

RowsSixChars == <<"0", "0", "0", "0", "0", "1">>

RowsSevenChars == <<"0", "0", "0", "0", "0", "0", "1">>

RowsSingle == <<"1", "0", "1">>

RowsScenario == <<"0", "0", "1", ",", " ", "0", "1", "1", ",", " ", "1", "0", "1", ",", " ", "1", "1", "1">>

RowsNoSpace == <<"0", "1", ",", "1", "0">>

RowsDuplicate == <<"0", "0", "0", ",", " ", "0", "0", "1">>

SampleRows ==
    {RowsEmpty,
     RowsOneChar,
     RowsOneColumn,
     RowsBadChar,
     RowsRagged,
     RowsSixChars,
     RowsSevenChars,
     RowsSingle,
     RowsScenario,
     RowsNoSpace,
     RowsDuplicate}

\* the k-character binary text of j, first column first
RECURSIVE Bits(_, _)
Bits(j, k) ==
    IF k = 0 THEN <<>>
    ELSE Bits(j \div 2, k - 1) \o <<IF j % 2 = 1 THEN "1" ELSE "0">>

RECURSIVE Join(_)
Join(row_list) ==
    IF Len(row_list) = 1 THEN row_list[1]
    ELSE row_list[1] \o <<",", " ">> \o Join(Tail(row_list))

\* every row of k proposition columns once, with result 1 on the rows of true_rows
CompleteRows(k, true_rows) ==
    Join([n \in 1..(2 ^ k) |->
            Bits(n - 1, k) \o <<IF (n - 1) \in true_rows THEN "1" ELSE "0">>])

CompleteRowInputs ==
    UNION {{CompleteRows(k, true_rows) :
                true_rows \in {{f[i] : i \in 1..MaxTrue} \ {-1} :
                                  f \in [1..MaxTrue -> -1..(2 ^ k - 1)]}} :
           k \in 1..4}

RowInputs == CompleteRowInputs \cup SampleRows

(***************************************************************************)
(* State.                                                                  *)
(***************************************************************************)
\* no expression has been parsed
NoExpression == [err |-> "absent"]

NoResult == [err |-> "unset"]

\* no table has been built
NoTable == [err |-> "absent"]

\* no text has been handed to get_subexpression yet
NoSubexpression == [err |-> "absent"]

Init ==
    /\ pc = "start"
    /\ expression_string = <<>>
    /\ validate_propositions = FALSE
    /\ expression = NoExpression
    /\ permutation = <<>>
    /\ result = NoResult
    /\ rows = <<>>
    /\ built_from = "none"
    /\ table = NoTable
    /\ expression_str = <<>>
    /\ rebuilt = NoTable
    /\ extracted = NoSubexpression

(***************************************************************************)
(* The expression interface: parse, set_values, evaluate,                  *)
(* evaluate_permutation.                                                   *)
(***************************************************************************)
Parse ==
    /\ pc = "start"
    /\ \E s \in Texts, validate_flag \in BOOLEAN :
          /\ expression_string' = s
          /\ validate_propositions' = validate_flag
          /\ expression' = parse(s, validate_flag)
    /\ pc' = IF expression'.err = "none" THEN "parsed" ELSE "failed"
    /\ UNCHANGED <<permutation, result, rows, built_from, table, expression_str, rebuilt, extracted>>

SetValues(perm) ==
    /\ pc \in {"parsed", "set", "evaluated"}
    /\ expression' = set_values(expression, perm)
    /\ permutation' = <<perm>>
    /\ result' = NoResult
    /\ pc' = "set"
    /\ UNCHANGED <<expression_string, validate_propositions, rows, built_from, table,
                   expression_str, rebuilt, extracted>>

Evaluate ==
    /\ pc \in {"parsed", "set"}
    /\ result' = evaluate(expression)
    /\ pc' = "evaluated"
    /\ UNCHANGED <<expression_string, validate_propositions, expression, permutation,
                   rows, built_from, table, expression_str, rebuilt, extracted>>

EvaluatePermutation(perm) ==
    /\ pc \in {"parsed", "set", "evaluated"}
    /\ expression' = set_values(expression, perm)
    /\ permutation' = <<perm>>
    /\ result' = evaluate(expression')
    /\ pc' = "evaluated"
    /\ UNCHANGED <<expression_string, validate_propositions, rows, built_from, table,
                   expression_str, rebuilt, extracted>>

Next ==
    \/ Parse
    \/ \E perm \in PermutationInputs : SetValues(perm)
    \/ Evaluate
    \/ \E perm \in PermutationInputs : EvaluatePermutation(perm)

Spec == Init /\ [][Next]_vars

(***************************************************************************)
(* The truth-table interface: parse_expression_str, parse_rows,            *)
(* to_expression_str.                                                      *)
(***************************************************************************)
ParseExpressionStr ==
    /\ pc = "start"
    /\ \E s \in Texts :
          /\ expression_string' = s
          /\ table' = parse_expression_str(s)
    /\ built_from' = "expression"
    /\ pc' = IF table'.err = "none" THEN "table" ELSE "failed"
    /\ UNCHANGED <<validate_propositions, expression, permutation, result, rows,
                   expression_str, rebuilt, extracted>>

ParseRows ==
    /\ pc = "start"
    /\ \E text \in RowInputs, debug_build \in BOOLEAN :
          /\ rows' = text
          /\ table' = parse_rows(text, debug_build)
    /\ built_from' = "rows"
    /\ pc' = IF table'.err = "none" THEN "table" ELSE "failed"
    /\ UNCHANGED <<expression_string, validate_propositions, expression, permutation,
                   result, expression_str, rebuilt, extracted>>

ToExpressionStr ==
    /\ pc = "table"
    /\ expression_str' = to_expression_str(table)
    /\ pc' = "encoded"
    /\ UNCHANGED <<expression_string, validate_propositions, expression, permutation,
                   result, rows, built_from, table, rebuilt, extracted>>

\* the text of to_expression_str given back to parse_expression_str
Rebuild ==
    /\ pc = "encoded"
    /\ rebuilt' = parse_expression_str(expression_str)
    /\ pc' = "rebuilt"
    /\ UNCHANGED <<expression_string, validate_propositions, expression, permutation,
                   result, rows, built_from, table, expression_str, extracted>>

NextTable ==
    \/ ParseExpressionStr
    \/ ParseRows
    \/ ToExpressionStr
    \/ Rebuild

SpecTable == Init /\ [][NextTable]_vars

(***************************************************************************)
(* get_subexpression on its own, as the unit tests call it.                *)
(***************************************************************************)
GetSubexpression ==
    /\ pc = "start"
    /\ \E s \in Texts :
          /\ expression_string' = s
          /\ extracted' = IF get_subexpression_panics(s)
                          THEN Panic("internal")
                          ELSE [err |-> "none", text |-> get_subexpression(s)]
    /\ pc' = "extracted"
    /\ UNCHANGED <<validate_propositions, expression, permutation, result, rows,
                   built_from, table, expression_str, rebuilt>>

NextSubexpression == GetSubexpression

SpecSubexpression == Init /\ [][NextSubexpression]_vars

(***************************************************************************)
(* Properties.                                                             *)
(***************************************************************************)
Parsed == pc # "start" /\ expression.err = "none"

Evaluated == pc = "evaluated" /\ permutation # <<>>

\* the truth value the packed permutation of the state gives a proposition
Holds(id) == mask(id, permutation[1])

TableFromRows == pc \in {"table", "encoded", "rebuilt"} /\ built_from = "rows"

TableFromExpression == pc \in {"table", "encoded", "rebuilt"} /\ built_from = "expression"

\* a table that holds every permutation of its propositions
CompleteTable(t) == Cardinality(DOMAIN t.values_and_results) = 2 ^ Len(t.propositions)

\* C1: a table built by parse_rows from valid rows, encoded by to_expression_str
\* and built again by parse_expression_str, maps the same permutations to the
\* same results (stated for the tables that hold every permutation of their
\* propositions)
C1_RoundTrip ==
    (pc = "rebuilt" /\ built_from = "rows" /\ CompleteTable(table))
        => /\ rebuilt.err = "none"
           /\ rebuilt.values_and_results = table.values_and_results

\* the '(' left open when every ')' closes the nearest open '('
RECURSIVE OpenCount(_, _, _)
OpenCount(s, i, open) ==
    IF i > Len(s) THEN open
    ELSE OpenCount(s, i + 1,
            CASE s[i] = "(" -> open + 1
              [] s[i] = ")" /\ open > 0 -> open - 1
              [] OTHER -> open)

HasUnmatchedOpen(s) == OpenCount(s, 1, 0) > 0

\* C2: parse fails on every text that holds a '(' with no matching ')'
C2_UnmatchedOpenRejected ==
    (pc # "start" /\ HasUnmatchedOpen(expression_string)) => expression.err # "none"

\* C3: "A & B" is true for the permutation 0b0011 and false for 0b0000, 0b0001,
\* 0b0010; "!A & !B" is true for 0b0000 and false for 0b0001, 0b0010, 0b0011
C3_LowBitsAssignAB ==
    (Evaluated /\ permutation[1] \in 0..3)
        => /\ expression_string = TextAandB => result = Value(permutation[1] = 3)
           /\ expression_string = TextNotAandNotB => result = Value(permutation[1] = 0)

\* C4: "(A & B) | (C & D)" parses to two sub-expression elements joined by one
\* Or, and is true exactly for the permutations 0011, 0111, 1011, 1100, 1101,
\* 1110, 1111, that is exactly when (A and B) or (C and D) holds
C4_TwoGroups ==
    (pc # "start" /\ expression_string = TextABorCD)
        => /\ expression.err = "none"
           /\ Len(expression.elements) = 2
           /\ \A k \in 1..2 : expression.elements[k].token.kind = "Subexpression"
           /\ expression.operators = <<"Or">>
           /\ Evaluated =>
                /\ result = Value(permutation[1] \in {3, 7, 11, 12, 13, 14, 15})
                /\ result = Value((Holds("A") /\ Holds("B")) \/ (Holds("C") /\ Holds("D")))

C4_Witness ==
    /\ expression_string = TextABorCD
    /\ Evaluated
    /\ permutation = <<12>>
    /\ result = Value(TRUE)

RECURSIVE NodeCounts(_)
NodeCounts(e) ==
    /\ Len(e.elements) = Len(e.operators) + 1
    /\ \A k \in DOMAIN e.elements :
          e.elements[k].token.kind = "Subexpression" => NodeCounts(e.elements[k].token.e)

\* C5: every node of a parsed expression, nested ones included, has one element
\* more than it has operators; "A & B" is the propositions A and B, neither
\* negated, and the operator And
C5_ElementsOneMoreThanOperators ==
    Parsed =>
        /\ NodeCounts(expression)
        /\ expression_string = TextAandB =>
              /\ expression.elements = <<new_element(Proposition("A"), FALSE),
                                         new_element(Proposition("B"), FALSE)>>
              /\ expression.operators = <<"And">>

C5_Witness ==
    /\ Parsed
    /\ expression_string = TextNested
    /\ Len(expression.elements) = 2
    /\ Len(expression.elements[1].token.e.elements[1].token.e.elements) = 2

\* the proposition letters of a text, without regard to case
LetterSet(s) ==
    {CASE s[i] \in {"a", "A"} -> "A"
       [] s[i] \in {"b", "B"} -> "B"
       [] s[i] \in {"c", "C"} -> "C"
       [] s[i] \in {"d", "D"} -> "D" :
     i \in {j \in 1..Len(s) : s[j] \in {"a", "A", "b", "B", "c", "C", "d", "D"}}}

ContiguousSets == {{"A"}, {"A", "B"}, {"A", "B", "C"}, {"A", "B", "C", "D"}}

\* C6: with validation, parse fails with the validation error exactly on the
\* texts whose letters are not {A}, {A,B}, {A,B,C} or {A,B,C,D}, and on the
\* others does what it does without validation (no nested group is validated);
\* without validation no text fails with the validation error
C6_ValidationOfLetters ==
    pc # "start" =>
        /\ validate_propositions =>
              /\ expression.err = "validation"
                    <=> LetterSet(expression_string) \notin ContiguousSets
              /\ LetterSet(expression_string) \in ContiguousSets
                    => expression.err = parse(expression_string, FALSE).err
        /\ ~validate_propositions => expression.err # "validation"
        /\ expression_string = TextGroupAC => expression.err = "none"
        /\ (expression_string = TextAandC /\ ~validate_propositions)
              => expression.err = "none"

C6_Witness ==
    /\ pc = "parsed"
    /\ validate_propositions
    /\ expression_string = TextGroupAC

\* the position of the ')' that closes the '(' at position i, Len(s) + 1 if none
RECURSIVE CloserOf(_, _, _)
CloserOf(s, k, depth) ==
    IF k > Len(s) THEN k
    ELSE IF s[k] = ")" /\ depth = 1 THEN k
    ELSE CloserOf(s, k + 1,
            CASE s[k] = "(" -> depth + 1
              [] s[k] = ")" -> depth - 1
              [] OTHER -> depth)

\* the elements of one nesting level of a text, in order: <<first, last>> positions
RECURSIVE ElementSpans(_, _)
ElementSpans(s, i) ==
    IF i > Len(s) THEN <<>>
    ELSE IF s[i] \in {"a", "A", "b", "B", "c", "C", "d", "D"}
         THEN <<(<<i, i>>)>> \o ElementSpans(s, i + 1)
    ELSE IF s[i] = "("
         THEN <<(<<i, CloserOf(s, i + 1, 1)>>)>> \o ElementSpans(s, CloserOf(s, i + 1, 1) + 1)
    ELSE ElementSpans(s, i + 1)

\* a negation marker stands between the previous element and element j
MarkerBefore(s, spans, j) ==
    \E q \in (IF j = 1 THEN 1 ELSE spans[j - 1][2] + 1)..(spans[j][1] - 1) :
        s[q] \in {"!", "/"}

RECURSIVE NegationAgrees(_, _)
NegationAgrees(s, e) ==
    LET spans == ElementSpans(s, 1) IN
    /\ Len(e.elements) = Len(spans)
    /\ \A j \in DOMAIN spans :
          /\ e.elements[j].negation = MarkerBefore(s, spans, j)
          /\ e.elements[j].token.kind = "Subexpression" =>
                NegationAgrees(SubSeq(s, spans[j][1] + 1, spans[j][2] - 1),
                               e.elements[j].token.e)

\* C7: an element is negated exactly when a negation marker stands between the
\* previous element of its level (or the start) and it; "!(A & B)" evaluates to
\* not (A and B), "!A & B" to (not A) and B
C7_NegationBindsNextElement ==
    Parsed =>
        /\ NegationAgrees(expression_string, expression)
        /\ (Evaluated /\ expression_string = TextNotGroup)
              => result = Value(~(Holds("A") /\ Holds("B")))
        /\ (Evaluated /\ expression_string = TextNotAandB)
              => result = Value(~Holds("A") /\ Holds("B"))

C7_Witness ==
    /\ Parsed
    /\ expression_string = TextTrailingNegation
    /\ ~expression.elements[2].negation
    /\ expression.elements[2].token.e.elements[2].negation
    /\ ~expression.elements[2].token.e.elements[1].negation

\* the value of a node under a packed permutation, folded from the left
RECURSIVE FoldLeft(_, _, _)
FoldLeft(e, perm, n) ==
    LET base == IF e.elements[n].token.kind = "Proposition"
                THEN mask(e.elements[n].token.p, perm)
                ELSE FoldLeft(e.elements[n].token.e, perm,
                              Len(e.elements[n].token.e.elements))
        value == IF e.elements[n].negation THEN ~base ELSE base
    IN IF n = 1 THEN value
       ELSE IF e.operators[n - 1] = "And"
            THEN FoldLeft(e, perm, n - 1) /\ value
            ELSE FoldLeft(e, perm, n - 1) \/ value

\* C8: evaluation folds the elements from the left, ((e0 op0 e1) op1 e2) ...,
\* with no precedence; "A | B & C" evaluates to (A or B) and C
C8_LeftToRightFold ==
    (Parsed /\ Evaluated) =>
        /\ result = Value(FoldLeft(expression, permutation[1], Len(expression.elements)))
        /\ expression_string = TextAorBandC
              => result = Value((Holds("A") \/ Holds("B")) /\ Holds("C"))

C8_Witness ==
    /\ Evaluated
    /\ expression_string = TextAorBandC
    /\ permutation = <<8>>
    /\ result = Value(FALSE)

\* C9: the table of an expression of k propositions has 2^k keys, one for each
\* truth assignment of the first k propositions and with no other bit set;
\* get_bit_permutations(k) lists them without repetition; each result is
\* evaluate_permutation of its key; the propositions are the first k of A,B,C,D
C9_TableOfExpression ==
    (TableFromExpression /\ table.err = "none") =>
        LET k == Len(table.propositions)
            keys == DOMAIN table.values_and_results
            perms == get_bit_permutations(k)
            parsed == parse(expression_string, TRUE)
        IN /\ k \in 1..4
           /\ k = Cardinality(LetterSet(expression_string))
           /\ table.propositions = SubSeq(<<"A", "B", "C", "D">>, 1, k)
           /\ Cardinality(keys) = 2 ^ k
           /\ Len(perms) = 2 ^ k
           /\ \A i, j \in DOMAIN perms : i # j => perms[i] # perms[j]
           /\ keys = {perms[i] : i \in DOMAIN perms}
           /\ \A a \in [1..k -> BOOLEAN] :
                 \E key \in keys : \A i \in 1..k : mask(from_int(i - 1), key) = a[i]
           /\ \A key \in keys :
                 /\ key \in 0..15
                 /\ \A i \in k..3 : ~mask(from_int(i), key)
                 /\ table.values_and_results[key] = evaluate_permutation(parsed, key).value

C9_Witness ==
    /\ pc = "table"
    /\ built_from = "expression"
    /\ expression_string = TextAorBandC
    /\ DOMAIN table.values_and_results = {0, 2, 4, 6, 8, 10, 12, 14}

\* C10: decode_permutation_str gives the i-th column of a row to the i-th
\* proposition as mask reads it and leaves the bits of the other propositions
\* 0; the keys of a complete set of k-column rows are the keys of the table of
\* an expression of k propositions
C10_RowsDecodeInMaskOrder ==
    (TableFromRows /\ table.err = "none") =>
        LET row_list == Split(rows, 1, <<>>)
            k == Len(row_list[1]) - 1
            perms == get_bit_permutations(k)
        IN /\ k \in 1..4
           /\ \A r \in DOMAIN row_list :
                 LET key == decode_permutation_str(row_list[r]) IN
                 /\ key \in 0..15
                 /\ \A i \in 0..(k - 1) :
                       (row_list[r][i + 1] = "1") <=> mask(from_int(i), key)
                 /\ \A i \in k..3 : ~mask(from_int(i), key)
                 /\ key \in DOMAIN table.values_and_results
           /\ Cardinality({SubSeq(row_list[r], 1, k) : r \in DOMAIN row_list}) = 2 ^ k
                 => DOMAIN table.values_and_results = {perms[i] : i \in DOMAIN perms}

C10_Witness ==
    /\ pc = "table"
    /\ built_from = "rows"
    /\ rows = RowsScenario
    /\ DOMAIN table.values_and_results = {0, 4, 8, 12}

\* the rows of a text: the pieces between the separators ", "
RowsOf(text) == Split(text, 1, <<>>)

\* one of the three format checks fails: a character other than '0' and '1' in
\* some row, rows of different lengths, or a row length outside 2..5
RowFormatInvalid(row_list) ==
    \/ \E r \in DOMAIN row_list : \E j \in DOMAIN row_list[r] : row_list[r][j] \notin {"0", "1"}
    \/ \E r, q \in DOMAIN row_list : Len(row_list[r]) # Len(row_list[q])
    \/ \E r \in DOMAIN row_list : Len(row_list[r]) \notin 2..5

RowFormatErrors == {"invalid_row_char", "row_size", "row_length"}

\* C11: parse_rows fails with a row-format error, never with an internal
\* violation or an arithmetic fault, on every text in which a row holds a
\* character other than '0' and '1', or the rows differ in length, or the row
\* length is outside 2..5; it builds a table only when the three checks pass
C11_RowFormatErrorsOnly ==
    (pc # "start" /\ built_from = "rows")
        => /\ RowFormatInvalid(RowsOf(rows)) => table.err \in RowFormatErrors
           /\ table.err = "none" => ~RowFormatInvalid(RowsOf(rows))

\* the permutations a table records as true
TrueKeys(t) == {p \in DOMAIN t.values_and_results : t.values_and_results[p]}

\* the members of a set of numbers, least first
InOrder(keys) ==
    [j \in 1..Cardinality(keys) |->
        CHOOSE p \in keys : Cardinality({q \in keys : q < p}) = j - 1]

\* the texts of a sequence with a separator between neighbours
RECURSIVE JoinWith(_, _)
JoinWith(parts, separator) ==
    IF parts = <<>> THEN <<>>
    ELSE IF Len(parts) = 1 THEN parts[1]
    ELSE parts[1] \o separator \o JoinWith(Tail(parts), separator)

\* the bit of A is worth 8, of B 4, of C 2, of D 1
BitOfLetter(perm, i) == (perm \div (2 ^ (4 - i))) % 2 = 1

\* the group of one permutation: the first k letters whose bit is set
GroupText(perm, k) ==
    LET set_letters == SelectSeq(SubSeq(<<1, 2, 3, 4>>, 1, k),
                                 LAMBDA i : BitOfLetter(perm, i))
    IN <<"(">>
       \o JoinWith([n \in 1..Len(set_letters) |-> <<(<<"A", "B", "C", "D">>)[set_letters[n]]>>],
                   <<" ", "&", " ">>)
       \o <<")">>

ExpectedText(t) ==
    LET ordered == InOrder(TrueKeys(t))
    IN JoinWith([j \in 1..Len(ordered) |-> GroupText(ordered[j], Len(t.propositions))],
                <<" ", "|", " ">>)

\* C12: the text of to_expression_str is one parenthesised group for each
\* permutation recorded as true, in ascending order of the packed permutation,
\* joined by " | "; a group lists the table's propositions whose bit is set, in
\* the order A, B, C, D, joined by " & "; no true result gives the empty text
\* and a true permutation with no bit set gives "()"
C12_TextOfTable ==
    pc \in {"encoded", "rebuilt"} =>
        /\ expression_str = ExpectedText(table)
        /\ TrueKeys(table) = {} => expression_str = <<>>
        /\ TrueKeys(table) = {0} => expression_str = <<"(", ")">>

C12_Witness ==
    /\ pc = "encoded"
    /\ built_from = "rows"
    /\ Len(table.propositions) = 3
    /\ TrueKeys(table) = {0, 12}
    /\ expression_str = <<"(", ")", " ", "|", " ", "(", "A", " ", "&", " ", "B", ")">>

\* every key of the node's table, and of every nested node's table, holds the
\* value the permutation gives it
RECURSIVE AssignedBy(_, _)
AssignedBy(e, perm) ==
    /\ \A id \in DOMAIN e.propositions : e.propositions[id] = <<mask(id, perm)>>
    /\ \A k \in DOMAIN e.elements :
          e.elements[k].token.kind = "Subexpression"
              => AssignedBy(e.elements[k].token.e, perm)

\* two trees of one shape with the same keys in the tables of matching nodes
RECURSIVE SameKeys(_, _)
SameKeys(e, f) ==
    /\ DOMAIN e.propositions = DOMAIN f.propositions
    /\ e.operators = f.operators
    /\ Len(e.elements) = Len(f.elements)
    /\ \A k \in DOMAIN e.elements :
          /\ e.elements[k].negation = f.elements[k].negation
          /\ e.elements[k].token.kind = f.elements[k].token.kind
          /\ IF e.elements[k].token.kind = "Subexpression"
             THEN SameKeys(e.elements[k].token.e, f.elements[k].token.e)
             ELSE e.elements[k].token = f.elements[k].token

\* C13: after any sequence of set_values and evaluate_permutation calls on a
\* parsed tree, every key of every table, nested ones included, holds the value
\* of the most recent permutation, the key sets are those of the parsed tree,
\* and the result of evaluating is the result for that permutation alone (so
\* the same permutation always gives the same result, whatever came before)
C13_LastPermutationDecides ==
    (Parsed /\ permutation # <<>>) =>
        LET fresh == parse(expression_string, validate_propositions)
        IN /\ SameKeys(expression, fresh)
           /\ AssignedBy(expression, permutation[1])
           /\ expression = set_values(fresh, permutation[1])
           /\ pc = "evaluated" => result = evaluate(set_values(fresh, permutation[1]))

C13_Witness ==
    /\ Evaluated
    /\ expression_string = TextNested
    /\ permutation = <<5>>
    /\ result = Value(FALSE)
    /\ expression.propositions = [id \in {"A", "B", "C", "D"} |-> <<id \in {"B", "D"}>>]

\* the tokens of one nesting level of a text, in order: "E" for an element (a
\* letter, or a group with all it holds), "O" for an operator marker
RECURSIVE LevelTokens(_, _)
LevelTokens(s, i) ==
    IF i > Len(s) THEN <<>>
    ELSE IF s[i] \in {"a", "A", "b", "B", "c", "C", "d", "D"}
         THEN <<"E">> \o LevelTokens(s, i + 1)
    ELSE IF s[i] = "("
         THEN <<"E">> \o LevelTokens(s, CloserOf(s, i + 1, 1) + 1)
    ELSE IF s[i] \in {"&", "*", "|", "+"}
         THEN <<"O">> \o LevelTokens(s, i + 1)
    ELSE LevelTokens(s, i + 1)

\* element, operator, element, ..., element
Alternates(tokens) ==
    /\ Len(tokens) % 2 = 1
    /\ \A k \in DOMAIN tokens : tokens[k] = (IF k % 2 = 1 THEN "E" ELSE "O")

\* the tokens of the text, or of a group at any depth, do not alternate
RECURSIVE BadOrder(_)
BadOrder(s) ==
    \/ ~Alternates(LevelTokens(s, 1))
    \/ \E n \in DOMAIN ElementSpans(s, 1) :
          LET span == ElementSpans(s, 1)[n]
          IN s[span[1]] = "(" /\ BadOrder(SubSeq(s, span[1] + 1, span[2] - 1))

\* C14: parse fails on every text whose tokens at one nesting level do not
\* alternate element, operator, element, ..., beginning and ending with an
\* element (an operator first or last, two operators in a row, two elements
\* in a row)
C14_AlternationEnforced ==
    (pc # "start" /\ BadOrder(expression_string)) => expression.err # "none"

\* every proposition element of a node, at any depth, is one of A, B, C, D and
\* a key of the table of that node
RECURSIVE ElementsAreKeys(_)
ElementsAreKeys(e) ==
    /\ DOMAIN e.propositions \subseteq PropositionIdentifier
    /\ \A k \in DOMAIN e.elements :
          IF e.elements[k].token.kind = "Proposition"
          THEN /\ e.elements[k].token.p \in PropositionIdentifier
               /\ e.elements[k].token.p \in DOMAIN e.propositions
          ELSE ElementsAreKeys(e.elements[k].token.e)

\* every proposition element of a node, at any depth, has a value in the table
\* of that node
RECURSIVE ElementsAssigned(_)
ElementsAssigned(e) ==
    \A k \in DOMAIN e.elements :
        IF e.elements[k].token.kind = "Proposition"
        THEN get_value(e.propositions, e.elements[k].token.p) # <<>>
        ELSE ElementsAssigned(e.elements[k].token.e)

\* C15: no internal violation is reachable under valid use: parsing a text never
\* calls get_subexpression on a text that does not begin with '(' nor from_char
\* on a character that is not a proposition letter; every proposition element
\* of an accepted text, at any depth, is a key of its node's table, and once
\* set_values has run each has a value, so evaluating never meets an unset one
C15_NoInternalViolation ==
    /\ pc # "start" => expression.err # "internal"
    /\ Parsed => ElementsAreKeys(expression)
    /\ (Parsed /\ permutation # <<>>) =>
          /\ ElementsAssigned(expression)
          /\ pc = "evaluated" => result.err = "none"

C15_Witness ==
    /\ Evaluated
    /\ expression_string = TextNotGroup
    /\ permutation = <<12>>
    /\ result = Value(FALSE)

\* space, newline, tab, carriage return
Whitespace == {" ", "\n", "\t", "\r"}

StripWhitespace(s) == SelectSeq(s, LAMBDA c : c \notin Whitespace)

\* the characters that have a meaning in an expression
MeaningfulChars ==
    {"a", "A", "b", "B", "c", "C", "d", "D", "(", ")", "!", "/", "&", "*", "|", "+"}

\* C16: parse ignores every whitespace character (space, newline, tab, carriage
\* return) wherever it stands, so a text parses as the text without its
\* whitespace does; a character that is neither whitespace nor a letter a-d or
\* A-D, a parenthesis or a marker of negation, conjunction or disjunction makes
\* the parse fail, at the top level and inside a group
C16_WhitespaceIgnored ==
    pc \in {"parsed", "failed"} =>
        /\ expression = parse(StripWhitespace(expression_string), validate_propositions)
        /\ (\E i \in DOMAIN expression_string :
                expression_string[i] \notin MeaningfulChars \cup Whitespace)
              => expression.err # "none"

\* as many '(' as ')' among the first c characters
ClosedAt(s, c) ==
    Cardinality({i \in 1..c : s[i] = "("}) = Cardinality({i \in 1..c : s[i] = ")"})

\* the position of the ')' that matches the '(' at position 1, 0 if there is none
MatchingCloser(s) ==
    IF \E c \in 2..Len(s) : ClosedAt(s, c)
    THEN CHOOSE c \in 2..Len(s) : ClosedAt(s, c) /\ \A b \in 2..(c - 1) : ~ClosedAt(s, b)
    ELSE 0

\* C17: for a text that begins with '(' whose first '(' has a matching ')',
\* get_subexpression returns the text strictly between the two (nested groups
\* whole, nothing after the matching ')'); when there is no matching ')' it
\* returns all that follows the '('
C17_TextOfFirstGroup ==
    (pc = "extracted" /\ expression_string # <<>> /\ expression_string[1] = "(") =>
        LET closer == MatchingCloser(expression_string)
        IN /\ extracted.err = "none"
           /\ closer # 0 => extracted.text = SubSeq(expression_string, 2, closer - 1)
           /\ closer = 0
                 => extracted.text = SubSeq(expression_string, 2, Len(expression_string))
           /\ expression_string \in {TextNestedSingle, TextNested}
                 => extracted.text = <<"(", "A", " ", "|", " ", "B", ")", " ", "&", " ", "C">>

C17_Witness ==
    /\ pc = "extracted"
    /\ expression_string = TextNested
    /\ extracted = [err |-> "none",
                    text |-> <<"(", "A", " ", "|", " ", "B", ")", " ", "&", " ", "C">>]

====
